---- MODULE Spec2Model ----
(***************************************************************************)
(* Model of control_laser_tower/controller.py: the package-wide pin store  *)
(* (_GLOBAL_CONFIG, set_config), the LaserTower controller (two servos and *)
(* a laser LED driven through gpiozero handles) and BackendController      *)
(* (one HTTP POST per notification through requests).                      *)
(*                                                                         *)
(* Python floats are modelled as exact rationals [n, d] (d > 0, lowest     *)
(* terms); the hardware library (gpiozero) and the HTTP library (requests) *)
(* are modelled by what the controller observes of them.                   *)
(***************************************************************************)
EXTENDS Integers, Sequences, FiniteSets, TLC

VARIABLES
    GLOBAL_CONFIG,  \* controller.py:27  _GLOBAL_CONFIG
    towers,         \* the LaserTower instances, by slot
    call,           \* the last call made by the client and its outcome
    posts           \* number of POST requests issued so far by notify_backend

vars == <<GLOBAL_CONFIG, towers, call, posts>>

(***************************************************************************)
(* Bounds of the model.                                                    *)
(***************************************************************************)
NumTowers == 2      \* LaserTower instances a client creates
MaxCloses == 2      \* close() calls per instance
MaxPosts  == 3      \* POST requests over a run

Towers == 1..NumTowers

(***************************************************************************)
(* Exact rational arithmetic standing for Python float arithmetic.         *)
(***************************************************************************)
Abs(x) == IF x < 0 THEN -x ELSE x

RECURSIVE GCD(_, _)
GCD(a, b) == IF b = 0 THEN a ELSE GCD(b, a % b)

Rat(n, d) ==
    LET s == IF d < 0 THEN -1 ELSE 1
        g == GCD(Abs(n), Abs(d))
    IN  [n |-> (s * n) \div g, d |-> (s * d) \div g]

RatLess(x, y) == x.n * y.d < y.n * x.d
RatDiv(x, y)  == Rat(x.n * y.d, x.d * y.n)
RatSub(x, y)  == Rat(x.n * y.d - y.n * x.d, x.d * y.d)
RatInt(k)     == [n |-> k, d |-> 1]

(***************************************************************************)
(* Python values passed as pin arguments, and int() on them.               *)
(*   none  : None (argument absent)                                        *)
(*   int   : an int                    int(5)     = 5                      *)
(*   float : a float n/d               int(5.5)   = 5 (truncates toward 0) *)
(*   str   : a non-numeric string      int("x")   raises ValueError        *)
(***************************************************************************)
None      == [k |-> "none",  n |-> 0,  d |-> 1]
PyInt(i)  == [k |-> "int",   n |-> i,  d |-> 1]
PyFloat(n, d) == [k |-> "float", n |-> n, d |-> d]
PyStr     == [k |-> "str",   n |-> 0,  d |-> 1]

\* int(x): [ok, v]; ok = FALSE when int() raises
int(x) ==
    CASE x.k = "int"   -> [ok |-> TRUE, v |-> x.n]
      [] x.k = "float" -> [ok |-> TRUE,
                           v  |-> IF x.n >= 0 THEN x.n \div x.d
                                              ELSE -((-x.n) \div x.d)]
      [] OTHER         -> [ok |-> FALSE, v |-> 0]

(***************************************************************************)
(* Configuration store                                                     *)
(***************************************************************************)
PinKeys == <<"base_pin", "top_pin", "laser_pin">>

DEFAULT_CONFIG == [base_pin |-> 23, top_pin |-> 24, laser_pin |-> 17]

\* the three "if x is not None: cfg[key] = int(x)" statements, in order; the
\* first int() that raises ends the function with the earlier keys assigned
RECURSIVE AssignPins(_, _, _)
AssignPins(cfg, args, i) ==
    IF i > Len(PinKeys) THEN [cfg |-> cfg, raised |-> FALSE]
    ELSE IF args[i].k = "none" THEN AssignPins(cfg, args, i + 1)
    ELSE IF ~int(args[i]).ok THEN [cfg |-> cfg, raised |-> TRUE]
    ELSE AssignPins([cfg EXCEPT ![PinKeys[i]] = int(args[i]).v], args, i + 1)

\* a plausible slip: start again from the defaults on every call
set_config_reset(cfg, base_pin, top_pin, laser_pin) ==
    AssignPins(DEFAULT_CONFIG, <<base_pin, top_pin, laser_pin>>, 1)

set_config(cfg, base_pin, top_pin, laser_pin) ==
    AssignPins(cfg, <<base_pin, top_pin, laser_pin>>, 1)

\* a plausible slip: resolve against the built-in defaults, not the store
ResolveDefaults(cfg, base_pin, top_pin, laser_pin) ==
    AssignPins(DEFAULT_CONFIG, <<base_pin, top_pin, laser_pin>>, 1)

\* LaserTower.__init__, "resolve config": cfg = dict(_GLOBAL_CONFIG) and then
\* the explicit arguments
ResolveConfig(cfg, base_pin, top_pin, laser_pin) ==
    AssignPins(cfg, <<base_pin, top_pin, laser_pin>>, 1)

(***************************************************************************)
(* Hardware handles (gpiozero Servo and LED as the controller uses them)   *)
(***************************************************************************)
\* Servo(pin, **pulse): value starts at the mid position 0.0
Servo(pin) == [pin |-> pin, value |-> RatInt(0), closes |-> 0]
\* LED(pin): starts off
LED(pin)   == [pin |-> pin, lit |-> FALSE, closes |-> 0]

NoTower ==
    [constructed |-> FALSE, base |-> Servo(0), top |-> Servo(0),
     laser |-> LED(0), closeCalls |-> 0]

\* LaserTower.__init__ once the configuration is resolved
NewTower(cfg) ==
    [constructed |-> TRUE, base |-> Servo(cfg.base_pin),
     top |-> Servo(cfg.top_pin), laser |-> LED(cfg.laser_pin),
     closeCalls |-> 0]

TowerPins(tw) ==
    [base_pin |-> tw.base.pin, top_pin |-> tw.top.pin, laser_pin |-> tw.laser.pin]

NoCall == [op |-> "none"]

Init ==
    /\ GLOBAL_CONFIG = DEFAULT_CONFIG
    /\ towers = [t \in Towers |-> NoTower]
    /\ call = NoCall
    /\ posts = 0

(***************************************************************************)
(* Client calls on the store and the constructor                           *)
(***************************************************************************)
StoreArgs == {None, PyInt(5), PyStr}
CtorArgs  == {None, PyFloat(11, 2)}

SetConfig ==
    \E b \in StoreArgs, t \in StoreArgs, l \in StoreArgs :
        LET r == set_config(GLOBAL_CONFIG, b, t, l) IN
        /\ GLOBAL_CONFIG' = r.cfg
        /\ call' = [op |-> "set_config", args |-> <<b, t, l>>,
                    result |-> IF r.raised THEN "ValueError" ELSE "ok"]
        /\ UNCHANGED <<towers, posts>>

\* LaserTower(base_pin, top_pin, laser_pin) into slot t; gpiozero is either
\* importable or not
Construct(t, Args) ==
    /\ ~towers[t].constructed
    /\ \E b \in Args, p \in Args, l \in Args, gpiozero \in BOOLEAN :
        LET r == ResolveConfig(GLOBAL_CONFIG, b, p, l) IN
        /\ towers' = IF gpiozero /\ ~r.raised
                        THEN [towers EXCEPT ![t] = NewTower(r.cfg)]
                        ELSE towers
        /\ call' = [op |-> "LaserTower", tower |-> t, args |-> <<b, p, l>>,
                    result |-> IF ~gpiozero THEN "ImportError"
                               ELSE IF r.raised THEN "ValueError" ELSE "ok"]
        /\ UNCHANGED <<GLOBAL_CONFIG, posts>>

ConstructAny == \E t \in Towers : Construct(t, CtorArgs)

NextStore == SetConfig \/ ConstructAny

SpecStore == Init /\ [][NextStore]_vars

(***************************************************************************)
(* gpiozero handle operations as the controller uses them.  A handle whose *)
(* close() has been called is released; what a released handle does with a *)
(* later write is the hardware layer's business: gpiozero raises, a        *)
(* substituted test double may accept it.  `strict` is that choice.        *)
(***************************************************************************)
Released(dev) == dev.closes > 0

\* servo.value = v
WriteValue(dev, v, strict) ==
    IF Released(dev) /\ strict
        THEN [dev |-> dev, raised |-> TRUE]
        ELSE [dev |-> [dev EXCEPT !.value = v], raised |-> FALSE]

\* led.on() / led.off()
Switch(dev, lit, strict) ==
    IF Released(dev) /\ strict
        THEN [dev |-> dev, raised |-> TRUE]
        ELSE [dev |-> [dev EXCEPT !.lit = lit], raised |-> FALSE]

\* dev.close(): the release is invoked, whether or not it then raises
DevClose(dev) == [dev EXCEPT !.closes = @ + 1]

Outcome(tw, w, forwarded) ==
    [tw |-> tw,
     result |-> IF ~forwarded THEN "ValueError"
                ELSE IF w.raised THEN "DeviceClosed" ELSE "ok",
     forwarded |-> forwarded,
     applied |-> forwarded /\ ~w.raised]

NoWrite == [raised |-> FALSE]

(***************************************************************************)
(* LaserTower methods: (tower, arguments, environment) -> tower and result *)
(***************************************************************************)
\* a plausible slip: "fixing" the 360-degree domain to span [-1, 1] evenly
\* around 0 with the top servo's divisor
set_base_angle_90(tw, angle, strict) ==
    IF RatLess(angle, RatInt(0)) \/ RatLess(RatInt(360), angle)
        THEN Outcome(tw, NoWrite, FALSE)
        ELSE LET servo_value == RatSub(RatDiv(angle, RatInt(90)), RatInt(1))
                 w == WriteValue(tw.base, servo_value, strict)
             IN  Outcome([tw EXCEPT !.base = w.dev], w, TRUE)

set_base_angle(tw, angle, strict) ==
    IF RatLess(angle, RatInt(0)) \/ RatLess(RatInt(360), angle)
        THEN Outcome(tw, NoWrite, FALSE)
        ELSE LET servo_value == RatSub(RatDiv(angle, RatInt(180)), RatInt(1))
                 w == WriteValue(tw.base, servo_value, strict)
             IN  Outcome([tw EXCEPT !.base = w.dev], w, TRUE)

\* a plausible slip: the range check copied from set_base_angle
set_top_angle_360(tw, angle, strict) ==
    IF RatLess(angle, RatInt(0)) \/ RatLess(RatInt(360), angle)
        THEN Outcome(tw, NoWrite, FALSE)
        ELSE LET servo_value == RatSub(RatDiv(angle, RatInt(90)), RatInt(1))
                 w == WriteValue(tw.top, servo_value, strict)
             IN  Outcome([tw EXCEPT !.top = w.dev], w, TRUE)

set_top_angle(tw, angle, strict) ==
    IF RatLess(angle, RatInt(0)) \/ RatLess(RatInt(180), angle)
        THEN Outcome(tw, NoWrite, FALSE)
        ELSE LET servo_value == RatSub(RatDiv(angle, RatInt(90)), RatInt(1))
                 w == WriteValue(tw.top, servo_value, strict)
             IN  Outcome([tw EXCEPT !.top = w.dev], w, TRUE)

\* a variant with the closed/active check the code does not have
laser_on_checked(tw, strict) ==
    IF tw.closeCalls > 0
        THEN [tw |-> tw, result |-> "DeviceClosed", forwarded |-> FALSE,
              applied |-> FALSE]
        ELSE LET w == Switch(tw.laser, TRUE, strict)
             IN  Outcome([tw EXCEPT !.laser = w.dev], w, TRUE)

laser_on(tw, strict) ==
    LET w == Switch(tw.laser, TRUE, strict)
    IN  Outcome([tw EXCEPT !.laser = w.dev], w, TRUE)

\* a plausible slip: off implemented as a toggle
laser_off_toggle(tw, strict) ==
    LET w == Switch(tw.laser, ~tw.laser.lit, strict)
    IN  Outcome([tw EXCEPT !.laser = w.dev], w, TRUE)

laser_off(tw, strict) ==
    LET w == Switch(tw.laser, FALSE, strict)
    IN  Outcome([tw EXCEPT !.laser = w.dev], w, TRUE)

\* a plausible slip: the laser left out of the tuple of devices
DevicesNoLaser == <<"base", "top">>

\* for dev in (self.base, self.top, self.laser)
Devices == <<"base", "top", "laser">>

\* the loop body without its try/except: the first release that raises
\* ends the loop and the exception reaches the caller
RECURSIVE CloseLoopUnguarded(_, _, _)
CloseLoopUnguarded(tw, raising, i) ==
    IF i > Len(Devices) THEN [tw |-> tw, result |-> "ok"]
    ELSE LET released == [tw EXCEPT ![Devices[i]] = DevClose(@)] IN
         IF Devices[i] \in raising
             THEN [tw |-> released, result |-> "Exception"]
             ELSE CloseLoopUnguarded(released, raising, i + 1)

\* try: dev.close() / except Exception: pass, for each device in turn;
\* `raising` is the set of devices whose close() raises
RECURSIVE CloseLoop(_, _, _)
CloseLoop(tw, raising, i) ==
    IF i > Len(Devices) THEN [tw |-> tw, result |-> "ok"]
    ELSE CloseLoop([tw EXCEPT ![Devices[i]] = DevClose(@)], raising, i + 1)

close(tw, raising) ==
    LET r == CloseLoop(tw, raising, 1)
    IN  [tw |-> [r.tw EXCEPT !.closeCalls = @ + 1], result |-> r.result]

(***************************************************************************)
(* Client calls on a constructed tower                                     *)
(***************************************************************************)
\* float arguments tried by the client, in degrees
Angles ==
    { Rat(-1, 1000), RatInt(0), RatInt(90), RatInt(180), Rat(180001, 1000),
      RatInt(270), RatInt(360), Rat(360001, 1000) }

AngleCall(op, t, angle, strict, r) ==
    /\ towers' = [towers EXCEPT ![t] = r.tw]
    /\ call' = [op |-> op, tower |-> t, angle |-> angle, strict |-> strict,
                result |-> r.result, forwarded |-> r.forwarded,
                applied |-> r.applied]
    /\ UNCHANGED <<GLOBAL_CONFIG, posts>>

LaserCall(op, t, strict, r) ==
    /\ towers' = [towers EXCEPT ![t] = r.tw]
    /\ call' = [op |-> op, tower |-> t, strict |-> strict,
                result |-> r.result, forwarded |-> r.forwarded,
                applied |-> r.applied]
    /\ UNCHANGED <<GLOBAL_CONFIG, posts>>

SetBaseAngle(t) ==
    /\ towers[t].constructed
    /\ \E angle \in Angles, strict \in BOOLEAN :
        AngleCall("set_base_angle", t, angle, strict,
                  set_base_angle(towers[t], angle, strict))

SetTopAngle(t) ==
    /\ towers[t].constructed
    /\ \E angle \in Angles, strict \in BOOLEAN :
        AngleCall("set_top_angle", t, angle, strict,
                  set_top_angle(towers[t], angle, strict))

LaserOn(t) ==
    /\ towers[t].constructed
    /\ \E strict \in BOOLEAN :
        LaserCall("laser_on", t, strict, laser_on(towers[t], strict))

LaserOff(t) ==
    /\ towers[t].constructed
    /\ \E strict \in BOOLEAN :
        LaserCall("laser_off", t, strict, laser_off(towers[t], strict))

Close(t) ==
    /\ towers[t].constructed
    /\ towers[t].closeCalls < MaxCloses
    /\ \E raising \in SUBSET {"base", "top", "laser"} :
        LET r == close(towers[t], raising) IN
        /\ towers' = [towers EXCEPT ![t] = r.tw]
        /\ call' = [op |-> "close", tower |-> t, raising |-> raising,
                    result |-> r.result]
        /\ UNCHANGED <<GLOBAL_CONFIG, posts>>

\* the tower claims are per instance: one instance, created from the store
FirstTower == CHOOSE t \in Towers : \A u \in Towers : t <= u

ConstructFirst == Construct(FirstTower, {None})

NextTower ==
    \/ ConstructFirst
    \/ SetBaseAngle(FirstTower)
    \/ SetTopAngle(FirstTower)
    \/ LaserOn(FirstTower)
    \/ LaserOff(FirstTower)
    \/ Close(FirstTower)

SpecTower == Init /\ [][NextTower]_vars

(***************************************************************************)
(* Response bodies are sequences of characters.  resp.json() is modelled   *)
(* by a parser of JSON text (literals, unsigned integers, strings without  *)
(* escapes, arrays, objects) into tagged Python values [t, v]; resp.text   *)
(* is the body itself.                                                     *)
(***************************************************************************)
DigitChars == <<"0", "1", "2", "3", "4", "5", "6", "7", "8", "9">>
IsDigit(c) == \E k \in 1..Len(DigitChars) : DigitChars[k] = c
DigitVal(c) == (CHOOSE k \in 1..Len(DigitChars) : DigitChars[k] = c) - 1
IsSpace(c) == c \in {" ", "\n", "\t", "\r"}

JsonFail == [ok |-> FALSE, v |-> <<>>, next |-> 0]
JsonOk(v, next) == [ok |-> TRUE, v |-> v, next |-> next]
StartsWith(s, i, lit) ==
    /\ i + Len(lit) - 1 <= Len(s)
    /\ SubSeq(s, i, i + Len(lit) - 1) = lit

RECURSIVE SkipSpace(_, _)
SkipSpace(s, i) ==
    IF i <= Len(s) /\ IsSpace(s[i]) THEN SkipSpace(s, i + 1) ELSE i

\* the characters after an opening quote, up to the closing quote
RECURSIVE ParseString(_, _, _)
ParseString(s, i, acc) ==
    IF i > Len(s) THEN JsonFail
    ELSE IF s[i] = "\"" THEN JsonOk([t |-> "str", v |-> acc], i + 1)
    ELSE ParseString(s, i + 1, Append(acc, s[i]))

RECURSIVE ParseNumber(_, _, _)
ParseNumber(s, i, acc) ==
    IF i <= Len(s) /\ IsDigit(s[i])
        THEN ParseNumber(s, i + 1, 10 * acc + DigitVal(s[i]))
        ELSE JsonOk([t |-> "int", v |-> <<acc>>], i)

RECURSIVE ParseValue(_, _)
RECURSIVE ParseElements(_, _, _)
RECURSIVE ParseMembers(_, _, _)

ParseValue(s, i) ==
    LET j == SkipSpace(s, i) IN
    IF j > Len(s) THEN JsonFail
    ELSE IF StartsWith(s, j, <<"t", "r", "u", "e">>)
        THEN JsonOk([t |-> "bool", v |-> <<TRUE>>], j + 4)
    ELSE IF StartsWith(s, j, <<"f", "a", "l", "s", "e">>)
        THEN JsonOk([t |-> "bool", v |-> <<FALSE>>], j + 5)
    ELSE IF StartsWith(s, j, <<"n", "u", "l", "l">>)
        THEN JsonOk([t |-> "None", v |-> <<>>], j + 4)
    ELSE IF s[j] = "\"" THEN ParseString(s, j + 1, <<>>)
    ELSE IF IsDigit(s[j]) THEN ParseNumber(s, j, 0)
    ELSE IF s[j] = "[" THEN
        LET k == SkipSpace(s, j + 1) IN
        IF k <= Len(s) /\ s[k] = "]"
            THEN JsonOk([t |-> "list", v |-> <<>>], k + 1)
            ELSE ParseElements(s, k, <<>>)
    ELSE IF s[j] = "{" THEN
        LET k == SkipSpace(s, j + 1) IN
        IF k <= Len(s) /\ s[k] = "}"
            THEN JsonOk([t |-> "dict", v |-> <<>>], k + 1)
            ELSE ParseMembers(s, k, <<>>)
    ELSE JsonFail

\* value ("," value)* "]"
ParseElements(s, i, acc) ==
    LET e == ParseValue(s, i) IN
    IF ~e.ok THEN JsonFail
    ELSE LET k == SkipSpace(s, e.next) IN
         IF k > Len(s) THEN JsonFail
         ELSE IF s[k] = "]"
             THEN JsonOk([t |-> "list", v |-> Append(acc, e.v)], k + 1)
         ELSE IF s[k] = ","
             THEN ParseElements(s, k + 1, Append(acc, e.v))
         ELSE JsonFail

\* string ":" value ("," string ":" value)* "}"
ParseMembers(s, i, acc) ==
    LET j == SkipSpace(s, i) IN
    IF j > Len(s) \/ s[j] # "\"" THEN JsonFail
    ELSE LET key == ParseString(s, j + 1, <<>>) IN
    IF ~key.ok THEN JsonFail
    ELSE LET c == SkipSpace(s, key.next) IN
    IF c > Len(s) \/ s[c] # ":" THEN JsonFail
    ELSE LET val == ParseValue(s, c + 1) IN
    IF ~val.ok THEN JsonFail
    ELSE LET k == SkipSpace(s, val.next)
             member == [key |-> key.v.v, value |-> val.v] IN
         IF k > Len(s) THEN JsonFail
         ELSE IF s[k] = "}"
             THEN JsonOk([t |-> "dict", v |-> Append(acc, member)], k + 1)
         ELSE IF s[k] = ","
             THEN ParseMembers(s, k + 1, Append(acc, member))
         ELSE JsonFail

\* resp.json(): one JSON value and nothing but white space after it;
\* ok = FALSE when it raises (a ValueError)
json(body) ==
    LET r == ParseValue(body, 1) IN
    IF r.ok /\ SkipSpace(body, r.next) > Len(body)
        THEN [ok |-> TRUE, v |-> r.v]
        ELSE [ok |-> FALSE, v |-> <<>>]

(***************************************************************************)
(* BackendController.notify_backend                                        *)
(***************************************************************************)
\* a plausible slip: only server errors are treated as failures
raise_for_status_5xx(status) == 500 <= status /\ status < 600

\* resp.raise_for_status(): raises HTTPError for client and server errors
raise_for_status(status) == 400 <= status /\ status < 600

Raise(exc, cause) ==
    [kind |-> "raise", exc |-> exc, cause |-> cause, t |-> "", v |-> <<>>]
Return(t, v) ==
    [kind |-> "return", exc |-> "", cause |-> "", t |-> t, v |-> v]

\* a plausible slip: no fallback, the parse error reaches the caller
ReadBodyNoFallback(body) ==
    LET data == json(body) IN
    IF data.ok THEN Return("json", data.v) ELSE Raise("ValueError", "")

\* try: return resp.json() / except ValueError: return resp.text
ReadBody(body) ==
    LET data == json(body) IN
    IF data.ok THEN Return("json", data.v) ELSE Return("text", body)

\* requests is importable or not; reply is what requests.post meets: a
\* transport failure (a RequestException) or a response
notify_backend(backend_url, camera_id, message, now, requests, reply) ==
    IF ~requests
        THEN [posted |-> 0, request |-> <<>>,
              outcome |-> Raise("RuntimeError", "")]
    ELSE LET payload == [camera_id |-> camera_id, time |-> <<now, "Z">>,
                         message |-> message]
             request == <<[url |-> backend_url, json |-> payload,
                           timeout |-> 5]>>
         IN  IF reply.kind = "error"
                 THEN [posted |-> 1, request |-> request,
                       outcome |-> Raise("RuntimeError", reply.exc)]
             ELSE IF raise_for_status(reply.status)
                 THEN [posted |-> 1, request |-> request,
                       outcome |-> Raise("RuntimeError", "HTTPError")]
             ELSE [posted |-> 1, request |-> request,
                   outcome |-> ReadBody(reply.body)]

(***************************************************************************)
(* The endpoint and the client of the notifier                             *)
(***************************************************************************)
OkBody    == <<"{", "\"", "o", "k", "\"", ":", " ", "t", "r", "u", "e", "}">>
AckBody   == <<"A", "C", "K">>
EmptyBody == <<>>
ListBody  == <<"[", "1", ",", " ", "2", "]">>
CutBody   == <<"{", "\"", "o", "k", "\"", ":", " ", "t", "r", "u">>

Bodies   == {OkBody, AckBody, EmptyBody, ListBody, CutBody}
Statuses == {200, 204, 304, 404, 500}

Replies ==
    { [kind |-> "error", exc |-> e, status |-> 0, body |-> <<>>] :
        e \in {"ConnectionError", "Timeout"} }
    \cup
    { [kind |-> "response", exc |-> "", status |-> st, body |-> b] :
        st \in Statuses, b \in Bodies }

NotifyBackend ==
    /\ posts < MaxPosts
    /\ \E camera_id \in {"cam-1", "cam-2"}, message \in {"hello", "alert"},
          requests \in BOOLEAN, reply \in Replies :
        LET r == notify_backend("http://backend/notify", camera_id, message,
                                "2024-01-01T00:00:00", requests, reply) IN
        /\ posts' = posts + r.posted
        /\ call' = [op |-> "notify_backend", requests |-> requests,
                    reply |-> reply, request |-> r.request,
                    outcome |-> r.outcome]
        /\ UNCHANGED <<GLOBAL_CONFIG, towers>>

NextNotifier == NotifyBackend

SpecNotifier == Init /\ [][NextNotifier]_vars

(***************************************************************************)
(* Properties                                                              *)
(***************************************************************************)
\* a lies in [0, hi], bounds included
InDomain(a, hi) == 0 <= a.n /\ a.n <= hi * a.d
\* v = a / span - 1, cross-multiplied over the integers
IsMapped(v, a, span) == v.n * span * a.d = (a.n - span * a.d) * v.d
\* v lies in [-1, 1]
InUnit(v) == -v.d <= v.n /\ v.n <= v.d

TowerOps == {"set_base_angle", "set_top_angle", "laser_on", "laser_off"}
IsSetter(c) == c.op \in {"set_base_angle", "set_top_angle"}
SetterBound(c) == IF c.op = "set_base_angle" THEN 360 ELSE 180
SetterSpan(c) == IF c.op = "set_base_angle" THEN 180 ELSE 90
OwnServo(c) == IF c.op = "set_base_angle" THEN "base" ELSE "top"
OtherServo(c) == IF c.op = "set_base_angle" THEN "top" ELSE "base"

\* C1: on an active tower, a setter called with an angle of its inclusive
\* domain (base 0..360, top 0..180) succeeds, leaves exactly angle/180 - 1
\* (base) or angle/90 - 1 (top) in its own servo handle, a value of [-1, 1],
\* and touches neither the other servo nor the laser.
C1_AngleMapping ==
    [][ (/\ IsSetter(call')
         /\ InDomain(call'.angle, SetterBound(call'))
         /\ towers[call'.tower].closeCalls = 0)
        => LET t == call'.tower
               v == towers'[t][OwnServo(call')].value IN
           /\ call'.result = "ok"
           /\ IsMapped(v, call'.angle, SetterSpan(call'))
           /\ InUnit(v)
           /\ (call'.angle = RatInt(0) => v = RatInt(-1))
           /\ (call'.angle = RatInt(SetterBound(call')) => v = RatInt(1))
           /\ towers'[t][OtherServo(call')] = towers[t][OtherServo(call')]
           /\ towers'[t].laser = towers[t].laser ]_vars

C1_Witness ==
    /\ call.op = "set_base_angle"
    /\ call.angle = RatInt(360)
    /\ call.result = "ok"
    /\ towers[call.tower].closeCalls = 0
    /\ towers[call.tower].base.value = RatInt(1)

\* C2: a setter called with an angle below 0 or above its upper bound
\* (base 360, top 180) fails with ValueError and leaves both servo values
\* and the laser state as they were.
C2_OutOfRangeRejected ==
    [][ (IsSetter(call') /\ ~InDomain(call'.angle, SetterBound(call')))
        => /\ call'.result = "ValueError"
           /\ towers' = towers ]_vars

C2_Witness ==
    /\ call.op = "set_top_angle"
    /\ call.angle = RatInt(270)
    /\ call.result = "ValueError"
    /\ towers[call.tower].laser.lit
    /\ towers[call.tower].top.value = RatInt(1)

\* C3: close() returns normally and invokes release on each of the three
\* handles, whichever subset of the releases raises.
C3_CloseNeverRaises ==
    [][ call'.op = "close"
        => /\ call'.result = "ok"
           /\ \A dev \in {"base", "top", "laser"} :
                towers'[call'.tower][dev].closes
                    = towers[call'.tower][dev].closes + 1 ]_vars

C3_Witness ==
    /\ call.op = "close"
    /\ call.raising = {"base", "top"}
    /\ call.result = "ok"
    /\ towers[call.tower].laser.closes = 1

\* C4: a tower takes, for every pin argument it is not given, the channel
\* the store holds when it is constructed, and keeps its channels (and stays
\* constructed) through every later call, set_config included.
C4_ConfigReadAtConstruction ==
    [][ \A t \in Towers :
          /\ towers[t].constructed
             => /\ towers'[t].constructed
                /\ TowerPins(towers'[t]) = TowerPins(towers[t])
          /\ (~towers[t].constructed /\ towers'[t].constructed)
             => \A i \in 1..Len(PinKeys) :
                  call'.args[i] = None
                  => TowerPins(towers'[t])[PinKeys[i]]
                         = GLOBAL_CONFIG[PinKeys[i]] ]_vars

C4_Witness ==
    /\ \E t \in Towers :
         towers[t].constructed /\ towers[t].base.pin = DEFAULT_CONFIG.base_pin
    /\ call.op = "LaserTower"
    /\ call.result = "ok"
    /\ call.args = <<None, None, None>>
    /\ towers[call.tower].base.pin = 5
    /\ GLOBAL_CONFIG.base_pin = 5

\* C5 as claimed: once close() has been called on a tower, release has been
\* invoked exactly one time on each of its handles, however often close()
\* was called.
C5_ReleasedExactlyOnce ==
    \A t \in Towers :
        (towers[t].constructed /\ towers[t].closeCalls >= 1)
        => \A dev \in {"base", "top", "laser"} : towers[t][dev].closes = 1

\* C5 as amended: release is invoked on each handle once per close() call,
\* so as many times as close() was called (none before the first call).
C5_ReleasedOncePerClose ==
    \A t \in Towers :
        towers[t].constructed
        => \A dev \in {"base", "top", "laser"} :
             towers[t][dev].closes = towers[t].closeCalls

C5_Witness ==
    \E t \in Towers :
        /\ towers[t].constructed
        /\ towers[t].closeCalls = 2
        /\ towers[t].laser.closes = 2

\* C6 as claimed: after close(), a call of set_base_angle, set_top_angle,
\* laser_on or laser_off fails with a closed-resource error and writes
\* nothing to a released handle (stated for calls whose angle is in the
\* setter's domain, so that no validation error stands in the way).
C6_ClosedCallsFail ==
    (/\ call.op \in TowerOps
     /\ towers[call.tower].closeCalls > 0
     /\ IsSetter(call) => InDomain(call.angle, SetterBound(call)))
    => (call.result = "DeviceClosed" /\ ~call.applied)

\* C6 as amended: the controller has no closed check of its own.  After
\* close() a setter still validates its angle (ValueError, nothing
\* forwarded) and otherwise the call is forwarded to the released handle,
\* whose library alone decides between a closed-device error and applying
\* the write.
C6_ClosedCallsForwarded ==
    (call.op \in TowerOps /\ towers[call.tower].closeCalls > 0)
    => IF IsSetter(call) /\ ~InDomain(call.angle, SetterBound(call))
           THEN call.result = "ValueError" /\ ~call.forwarded
           ELSE /\ call.forwarded
                /\ call.strict => (call.result = "DeviceClosed" /\ ~call.applied)
                /\ ~call.strict => (call.result = "ok" /\ call.applied)

C6_Witness ==
    /\ call.op = "set_base_angle"
    /\ towers[call.tower].closeCalls > 0
    /\ call.angle = RatInt(360)
    /\ call.applied
    /\ towers[call.tower].base.value = RatInt(1)

C8_SuccessReturnsJsonOrText ==
    (/\ call.op = "notify_backend"
     /\ call.requests
     /\ call.reply.kind = "response"
     /\ 200 <= call.reply.status
     /\ call.reply.status <= 299)
    => /\ call.outcome.kind = "return"
       /\ json(call.reply.body).ok
          => /\ call.outcome.t = "json"
             /\ call.outcome.v = json(call.reply.body).v
       /\ ~json(call.reply.body).ok
          => /\ call.outcome.t = "text"
             /\ call.outcome.v = call.reply.body
       /\ call.reply.body = OkBody
          => /\ call.outcome.t = "json"
             /\ call.outcome.v.t = "dict"
             /\ Len(call.outcome.v.v) = 1
             /\ call.outcome.v.v[1].key = <<"o", "k">>
             /\ call.outcome.v.v[1].value = [t |-> "bool", v |-> <<TRUE>>]
       /\ call.reply.body = AckBody
          => /\ call.outcome.t = "text"
             /\ call.outcome.v = <<"A", "C", "K">>

C8_Witness ==
    /\ call.op = "notify_backend"
    /\ call.reply.kind = "response"
    /\ call.reply.status = 200
    /\ call.reply.body = AckBody
    /\ call.outcome.kind = "return"
    /\ call.outcome.t = "text"

\* C9: on an active tower laser_on leaves the laser on and laser_off leaves
\* it off, whatever its state was before, and neither changes a servo.
C9_LaserLastCallWins ==
    [][ (/\ call'.op \in {"laser_on", "laser_off"}
         /\ towers[call'.tower].closeCalls = 0)
        => LET t == call'.tower IN
           /\ call'.result = "ok"
           /\ towers'[t].laser.lit = (call'.op = "laser_on")
           /\ towers'[t].base = towers[t].base
           /\ towers'[t].top = towers[t].top ]_vars

C9_Witness ==
    /\ call.op = "laser_off"
    /\ call.result = "ok"
    /\ towers[call.tower].closeCalls = 0
    /\ ~towers[call.tower].laser.lit
    /\ towers[call.tower].base.value = RatInt(1)

\* C10: the store always holds the three keys with integer channels,
\* starting from base 23, top 24, laser 17; set_config leaves the channel of
\* every absent argument as it was and, when it returns, has stored int() of
\* every argument present.
StorePopulated ==
    /\ DOMAIN GLOBAL_CONFIG = {"base_pin", "top_pin", "laser_pin"}
    /\ \A k \in DOMAIN GLOBAL_CONFIG : GLOBAL_CONFIG[k] \in Int

C10_StorePartialUpdate ==
    /\ GLOBAL_CONFIG = [base_pin |-> 23, top_pin |-> 24, laser_pin |-> 17]
    /\ [][ /\ StorePopulated'
           /\ call'.op = "set_config"
              => \A i \in 1..Len(PinKeys) :
                   /\ call'.args[i] = None
                      => GLOBAL_CONFIG'[PinKeys[i]] = GLOBAL_CONFIG[PinKeys[i]]
                   /\ (call'.args[i] # None /\ call'.result = "ok")
                      => GLOBAL_CONFIG'[PinKeys[i]] = int(call'.args[i]).v
         ]_vars

C10_Witness ==
    /\ call.op = "set_config"
    /\ call.args = <<None, PyInt(5), None>>
    /\ call.result = "ok"
    /\ GLOBAL_CONFIG = [base_pin |-> 5, top_pin |-> 5, laser_pin |-> 17]

====
